---- MODULE Spec2Model ----
(***************************************************************************)
(* Model of the AI router (smart_router.py) and of its HTTP adapter        *)
(* (cursor_integration.py).                                                *)
(*                                                                         *)
(* Money is counted in millionths of a currency unit, so that the token    *)
(* rates 0.000003 and 0.000015 are the integers 3 and 15 and the monthly   *)
(* budget 5.0 is 5000000.  Text is a sequence of one-character strings.    *)
(***************************************************************************)
EXTENDS Integers, Sequences, FiniteSets, TLC

\* ---------------------------------------------------------------- bounds
\* Requests started in one behaviour.
MaxRequests == 2
\* Month changes of the wall clock in one behaviour.
MaxTicks == 1

\* ------------------------------------------------- configuration defaults
monthly_budget == 5000000
cost_per_input_token == 3
cost_per_output_token == 15
\* remaining < 0.5 routes to Ollama
LowBudget == 500000
\* len(prompt) > 1000 escalates
LongPrompt == 1000
\* len(text) // 4 estimates the tokens of a text
CharsPerToken == 4
\* sorted(budget_data.keys())[-3:]
MonthsToKeep == 3

escalation_keywords ==
    << <<"a","r","c","h","i","t","e","c","t","u","r","e">>,
       <<"d","e","s","i","g","n">>,
       <<"s","y","s","t","e","m">>,
       <<"c","o","m","p","l","e","x">>,
       <<"A","S","P","I","C","E">>,
       <<"c","o","m","p","l","i","a","n","c","e">>,
       <<"r","e","v","i","e","w">>,
       <<"a","n","a","l","y","s","i","s">>,
       <<"s","t","r","a","t","e","g","y">>,
       <<"p","l","a","n","n","i","n","g">> >>

ollama_keywords ==
    << <<"c","o","d","e">>,
       <<"r","e","f","a","c","t","o","r">>,
       <<"t","e","s","t">>,
       <<"d","e","b","u","g">>,
       <<"s","i","m","p","l","e">>,
       <<"f","u","n","c","t","i","o","n">>,
       <<"f","i","x">>,
       <<"e","r","r","o","r">>,
       <<"v","a","r","i","a","b","l","e">>,
       <<"l","o","o","p">>,
       <<"c","l","a","s","s">> >>

\* ------------------------------------------------------------------ text
\* The characters str.lower() changes, among those the texts here use.
UpperCase ==
    {"A","B","C","D","E","F","G","H","I","J","K","L","M",
     "N","O","P","Q","R","S","T","U","V","W","X","Y","Z"}

\* str.lower() on one character.
LowerChar(c) ==
    IF c \notin UpperCase THEN c
    ELSE CASE c = "A" -> "a" [] c = "B" -> "b" [] c = "C" -> "c" [] c = "D" -> "d"
           [] c = "E" -> "e" [] c = "F" -> "f" [] c = "G" -> "g" [] c = "H" -> "h"
           [] c = "I" -> "i" [] c = "J" -> "j" [] c = "K" -> "k" [] c = "L" -> "l"
           [] c = "M" -> "m" [] c = "N" -> "n" [] c = "O" -> "o" [] c = "P" -> "p"
           [] c = "Q" -> "q" [] c = "R" -> "r" [] c = "S" -> "s" [] c = "T" -> "t"
           [] c = "U" -> "u" [] c = "V" -> "v" [] c = "W" -> "w" [] c = "X" -> "x"
           [] c = "Y" -> "y" [] OTHER -> "z"

\* str.lower()
Lower(s) == [i \in 1..Len(s) |-> LowerChar(s[i])]

\* k in s  (Python substring test)
IsSubstring(k, s) ==
    \E i \in 0..(Len(s) - Len(k)) : \A j \in 1..Len(k) : s[i + j] = k[j]

\* any(keyword in text for keyword in keywords)
AnyKeywordIn(keywords, text) ==
    \E n \in 1..Len(keywords) : IsSubstring(keywords[n], text)

\* c * n
Repeat(c, n) == [i \in 1..n |-> c]

\* "\n".join(parts)
RECURSIVE JoinLines(_)
JoinLines(parts) ==
    IF Len(parts) = 0 THEN << >>
    ELSE IF Len(parts) = 1 THEN parts[1]
    ELSE parts[1] \o <<"\n">> \o JoinLines(Tail(parts))

\* [x for x in seq if keep(x)] for keep = "is a non-empty text"
RECURSIVE NonEmptyContents(_)
NonEmptyContents(messages) ==
    IF Len(messages) = 0 THEN << >>
    ELSE LET msg == messages[1]
             rest == NonEmptyContents(Tail(messages))
         IN IF "content" \in DOMAIN msg /\ Len(msg.content) > 0
            THEN <<msg.content>> \o rest
            ELSE rest

\* ------------------------------------------------------------ month keys
\* One decimal digit as a character.
DigitChar(d) ==
    CASE d = 0 -> "0" [] d = 1 -> "1" [] d = 2 -> "2" [] d = 3 -> "3"
      [] d = 4 -> "4" [] d = 5 -> "5" [] d = 6 -> "6" [] d = 7 -> "7"
      [] d = 8 -> "8" [] OTHER -> "9"

\* ord(c) for the characters of a month key
Ord(c) ==
    CASE c = "-" -> 45 [] c = "0" -> 48 [] c = "1" -> 49 [] c = "2" -> 50
      [] c = "3" -> 51 [] c = "4" -> 52 [] c = "5" -> 53 [] c = "6" -> 54
      [] c = "7" -> 55 [] c = "8" -> 56 [] OTHER -> 57

\* datetime.now().strftime("%Y-%m") of the clock [y, m]
MonthKey(t) ==
    << DigitChar((t.y \div 1000) % 10), DigitChar((t.y \div 100) % 10),
       DigitChar((t.y \div 10) % 10), DigitChar(t.y % 10), "-",
       DigitChar(t.m \div 10), DigitChar(t.m % 10) >>

\* a < b on strings, the order sorted() uses
RECURSIVE KeyLess(_, _)
KeyLess(a, b) ==
    IF Len(a) = 0 THEN Len(b) > 0
    ELSE IF Len(b) = 0 THEN FALSE
    ELSE IF a[1] = b[1] THEN KeyLess(Tail(a), Tail(b))
    ELSE Ord(a[1]) < Ord(b[1])

\* set(sorted(keys)[:n]), the slice at the wrong end.
FirstSorted(keys, n) ==
    {k \in keys : Cardinality({o \in keys : KeyLess(o, k)}) < n}

\* set(sorted(keys)[-n:])
LastSorted(keys, n) ==
    {k \in keys : Cardinality({o \in keys : KeyLess(k, o)}) < n}

\* The month after t.
NextMonth(t) ==
    IF t.m = 12 THEN [y |-> t.y + 1, m |-> 1] ELSE [y |-> t.y, m |-> t.m + 1]

\* ---------------------------------------------------------- budget ledger
\* get_budget_status(): the file's data (an absent file reads as {}), with a
\* zeroed entry for the current month added in memory only.
get_budget_status(file, now) ==
    LET current_month == MonthKey(now)
        budget_data ==
            IF current_month \in DOMAIN file THEN file
            ELSE [k \in DOMAIN file \cup {current_month} |->
                    IF k = current_month THEN [spent |-> 0, requests |-> 0]
                    ELSE file[k]]
    IN [current_month |-> current_month,
        spent |-> budget_data[current_month].spent,
        requests |-> budget_data[current_month].requests,
        budget |-> monthly_budget,
        remaining |-> monthly_budget - budget_data[current_month].spent,
        budget_data |-> budget_data]

\* An update_budget that forgets to count the request.
UpdatedBudgetDataSameRequests(budget_status, cost) ==
    LET current_month == budget_status.current_month
        data == [budget_status.budget_data EXCEPT
                    ![current_month] = [spent |-> @.spent + cost,
                                        requests |-> @.requests]]
        months_to_keep == LastSorted(DOMAIN data, MonthsToKeep)
    IN [month \in months_to_keep |-> data[month]]

\* update_budget(cost) after its get_budget_status(): the data it writes.
UpdatedBudgetData(budget_status, cost) ==
    LET current_month == budget_status.current_month
        data == [budget_status.budget_data EXCEPT
                    ![current_month] = [spent |-> @.spent + cost,
                                        requests |-> @.requests + 1]]
        months_to_keep == LastSorted(DOMAIN data, MonthsToKeep)
    IN [month \in months_to_keep |-> data[month]]

\* call_claude's price of a call: both token counts are estimated from lengths.
ClaudeCost(prompt_len, text_len) ==
    (prompt_len \div CharsPerToken) * cost_per_input_token
      + (text_len \div CharsPerToken) * cost_per_output_token

\* ---------------------------------------------------------------- router
\* A should_escalate_to_claude that skips the two budget checks.
EscalateIgnoringBudget(prompt, budget_status) ==
    LET prompt_lower == Lower(prompt) IN
    IF AnyKeywordIn(ollama_keywords, prompt_lower)
    THEN [escalate |-> FALSE, reason |-> "Einfache Coding-Task - Ollama ausreichend"]
    ELSE IF AnyKeywordIn(escalation_keywords, prompt_lower)
    THEN [escalate |-> TRUE, reason |-> "Komplexe Task - Claude erforderlich"]
    ELSE IF Len(prompt) > LongPrompt
    THEN [escalate |-> TRUE, reason |-> "Langer Prompt - Claude fuer bessere Qualitaet"]
    ELSE [escalate |-> FALSE, reason |-> "Standard-Task - Ollama Standard"]

\* A should_escalate_to_claude that tests the escalation keywords first.
EscalateKeywordsFirst(prompt, budget_status) ==
    LET prompt_lower == Lower(prompt) IN
    IF budget_status.remaining <= 0
    THEN [escalate |-> FALSE, reason |-> "Budget erschoepft - Fallback zu Ollama"]
    ELSE IF budget_status.remaining < LowBudget
    THEN [escalate |-> FALSE, reason |-> "Budget niedrig - Ollama bevorzugt"]
    ELSE IF AnyKeywordIn(escalation_keywords, prompt_lower)
    THEN [escalate |-> TRUE, reason |-> "Komplexe Task - Claude erforderlich"]
    ELSE IF AnyKeywordIn(ollama_keywords, prompt_lower)
    THEN [escalate |-> FALSE, reason |-> "Einfache Coding-Task - Ollama ausreichend"]
    ELSE IF Len(prompt) > LongPrompt
    THEN [escalate |-> TRUE, reason |-> "Langer Prompt - Claude fuer bessere Qualitaet"]
    ELSE [escalate |-> FALSE, reason |-> "Standard-Task - Ollama Standard"]

\* should_escalate_to_claude(prompt), given the budget status it reads first.
should_escalate_to_claude(prompt, budget_status) ==
    LET prompt_lower == Lower(prompt) IN
    IF budget_status.remaining <= 0
    THEN [escalate |-> FALSE, reason |-> "Budget erschoepft - Fallback zu Ollama"]
    ELSE IF budget_status.remaining < LowBudget
    THEN [escalate |-> FALSE, reason |-> "Budget niedrig - Ollama bevorzugt"]
    ELSE IF AnyKeywordIn(ollama_keywords, prompt_lower)
    THEN [escalate |-> FALSE, reason |-> "Einfache Coding-Task - Ollama ausreichend"]
    ELSE IF AnyKeywordIn(escalation_keywords, prompt_lower)
    THEN [escalate |-> TRUE, reason |-> "Komplexe Task - Claude erforderlich"]
    ELSE IF Len(prompt) > LongPrompt
    THEN [escalate |-> TRUE, reason |-> "Langer Prompt - Claude fuer bessere Qualitaet"]
    ELSE [escalate |-> FALSE, reason |-> "Standard-Task - Ollama Standard"]

\* No force_model given (Python's None).
None == "None"

\* A route_request that lets the budget override a forced Claude.
RouteDecisionBudgetFirst(prompt, force_model, file, now) ==
    LET budget_status == get_budget_status(file, now) IN
    IF force_model = "ollama"
    THEN [should_use_claude |-> FALSE, reason |-> "Erzwungen: Ollama",
          consulted |-> FALSE, remaining |-> 0]
    ELSE IF force_model = "claude" /\ budget_status.remaining > 0
    THEN [should_use_claude |-> TRUE, reason |-> "Erzwungen: Claude",
          consulted |-> FALSE, remaining |-> 0]
    ELSE LET d == should_escalate_to_claude(prompt, budget_status)
         IN [should_use_claude |-> d.escalate, reason |-> d.reason,
             consulted |-> TRUE, remaining |-> budget_status.remaining]

\* The head of route_request: the backend to try first and the reason.
\* consulted tells whether the budget ledger was read for the decision, and
\* remaining is what that read found (the forced branches read nothing).
RouteDecision(prompt, force_model, file, now) ==
    IF force_model = "ollama"
    THEN [should_use_claude |-> FALSE, reason |-> "Erzwungen: Ollama",
          consulted |-> FALSE, remaining |-> 0]
    ELSE IF force_model = "claude"
    THEN [should_use_claude |-> TRUE, reason |-> "Erzwungen: Claude",
          consulted |-> FALSE, remaining |-> 0]
    ELSE LET budget_status == get_budget_status(file, now)
             d == should_escalate_to_claude(prompt, budget_status)
         IN [should_use_claude |-> d.escalate, reason |-> d.reason,
             consulted |-> TRUE, remaining |-> budget_status.remaining]

\* A route_request that goes on to Ollama after any Claude result.
FallsBackOnAnyResult(should_use_claude, result) == should_use_claude

\* route_request after the first backend call: a failed Claude call that asks
\* for a fallback is followed by one Ollama call; a failed Ollama call is not
\* followed by anything ("Kein Fallback verfuegbar").
FallsBack(should_use_claude, result) ==
    should_use_claude /\ ~result.success /\ result.fallback

\* The result dictionaries of call_ollama and call_claude.
OllamaSuccess ==
    [success |-> TRUE, model |-> "ollama-mistral", cost |-> 0,
     error |-> "", fallback |-> FALSE]
OllamaFailure ==
    [success |-> FALSE, model |-> "", cost |-> 0,
     error |-> "ollama: request failed", fallback |-> TRUE]
ClaudeSuccess(cost) ==
    [success |-> TRUE, model |-> "claude-3-sonnet", cost |-> cost,
     error |-> "", fallback |-> FALSE]
ClaudeFailure ==
    [success |-> FALSE, model |-> "", cost |-> 0,
     error |-> "claude: request failed", fallback |-> TRUE]
ClaudeNoKey ==
    [success |-> FALSE, model |-> "", cost |-> 0,
     error |-> "Claude API key nicht konfiguriert", fallback |-> TRUE]

\* ----------------------------------------------------------------- inputs
\* Prompts given on the command line.
Prompts ==
    { << >>,
      <<"D","e","s","i","g","n"," ","t","h","e"," ","C","o","d","e">>,
      <<"A","S","P","I","C","E">>,
      Repeat("x", LongPrompt),
      Repeat("x", LongPrompt + 1) }

\* Two prompts of different lengths, for requests that run side by side.
ShortPrompts ==
    { <<"D","e","s","i","g","n"," ","t","h","e"," ","C","o","d","e">>,
      <<"A","S","P","I","C","E">> }

\* force_model values: none and the two the router knows (any other value
\* takes the same branch as none).
ForceModels == {None, "ollama", "claude"}

\* The "messages" of chat-completion requests; a message may lack "content".
ChatMessages ==
    { << >>,
      << [role |-> "user", content |-> << >>] >>,
      << [role |-> "user"] >>,
      << [role |-> "system", content |-> <<"h","e","l","l","o">>],
         [role |-> "assistant"],
         [role |-> "user", content |-> <<"f","i","x">>] >>,
      << [role |-> "user", content |-> <<"d","e","s","i","g","n">>] >> }

\* Lengths of the text a successful Claude call returns (max_tokens=2000 is
\* about 8000 characters).
TextLengths == {8000}

\* The processes that use the router: each command-line run and each HTTP
\* request builds its own SmartAIRouter over the same two files.
Procs == {1, 2}

\* The default claude_api_key: none.  A router's claude_client is modelled by
\* the key it was built with, and by this value when it was built without one.
NoApiKey == ""

\* The claude_api_key the configuration holds at the start.
StoredKeys == {NoApiKey, "sk-ant-old"}

\* The keys given to  python smart_router.py setup <claude_api_key>.
SetupKeys == {"sk-ant-old", "sk-ant-new"}

\* setup_config's test prompt, "Hello, test message".
TestPrompt ==
    <<"H","e","l","l","o",","," ","t","e","s","t"," ","m","e","s","s","a","g","e">>

\* The clock at the start.
StartMonth == [y |-> 2025, m |-> 12]

\* The budget file at the start: absent, or as earlier runs left it.
InitialFiles ==
    { << >>,
      [k \in {MonthKey(StartMonth)} |-> [spent |-> 4999980, requests |-> 170]],
      [k \in {MonthKey([y |-> 2025, m |-> 10]), MonthKey([y |-> 2025, m |-> 11]),
              MonthKey(StartMonth)} |->
          IF k = MonthKey(StartMonth)
          THEN [spent |-> 4500000, requests |-> 150]
          ELSE [spent |-> 30000, requests |-> 1]] }

\* ------------------------------------------------------------------ state
VARIABLES
    now,             \* the wall clock's month, [y, m]
    budget_file,     \* budget_tracker.json: month key -> [spent, requests]
    claude_api_key,  \* router_config.json's claude_api_key ("" without one)
    rt,              \* per process: its router and its position in a request
    written,         \* the month keys update_budget has written so far
    started,         \* requests started
    ticks            \* month changes so far

vars == <<now, budget_file, claude_api_key, rt, written, started, ticks>>

\* A process between requests.
Idle ==
    [pc |-> "idle", kind |-> "", prompt |-> << >>, force_model |-> None,
     claude_client |-> NoApiKey, should_use_claude |-> FALSE, reason |-> "",
     consulted |-> FALSE, remaining |-> 0, calls |-> << >>, result |-> << >>,
     cost |-> 0, budget_status |-> << >>, attached |-> << >>, http |-> 0]

Init ==
    /\ now = StartMonth
    /\ budget_file \in InitialFiles
    /\ claude_api_key \in StoredKeys
    /\ rt = [p \in Procs |-> Idle]
    /\ written = DOMAIN budget_file
    /\ started = 0
    /\ ticks = 0

\* SmartAIRouter() followed by route_request(prompt, force_model) up to the
\* routing decision.
Routed(kind, prompt, force_model) ==
    LET d == RouteDecision(prompt, force_model, budget_file, now)
    IN [Idle EXCEPT !.pc = "call", !.kind = kind, !.prompt = prompt,
                    !.force_model = force_model,
                    !.claude_client = claude_api_key,
                    !.should_use_claude = d.should_use_claude,
                    !.reason = d.reason, !.consulted = d.consulted,
                    !.remaining = d.remaining]

\* python smart_router.py prompt <prompt> [force_model]
PromptCommandWith(p, prompts, force_models) ==
    /\ rt[p].pc = "idle"
    /\ started < MaxRequests
    /\ \E prompt \in prompts, force_model \in force_models :
          rt' = [rt EXCEPT ![p] = Routed("prompt", prompt, force_model)]
    /\ started' = started + 1
    /\ UNCHANGED <<now, budget_file, claude_api_key, written, ticks>>

PromptCommand(p) == PromptCommandWith(p, Prompts, ForceModels)

\* The same command with Claude forced, as run side by side with another.
ForcedClaudeCommand(p) == PromptCommandWith(p, ShortPrompts, {"claude"})

\* handle_chat_completion with no messages: ValueError, answered with 500.
ChatNoMessages(p) ==
    /\ rt[p].pc = "idle"
    /\ started < MaxRequests
    /\ \E messages \in ChatMessages :
          /\ Len(messages) = 0
          /\ rt' = [rt EXCEPT ![p] = [Idle EXCEPT !.pc = "done",
                                                  !.kind = "no messages",
                                                  !.http = 500]]
    /\ started' = started + 1
    /\ UNCHANGED <<now, budget_file, claude_api_key, written, ticks>>

\* handle_chat_completion with messages: the non-empty contents joined by
\* newlines are routed with no force_model.
ChatCompletion(p) ==
    /\ rt[p].pc = "idle"
    /\ started < MaxRequests
    /\ \E messages \in ChatMessages :
          /\ Len(messages) > 0
          /\ rt' = [rt EXCEPT ![p] =
                      Routed("chat", JoinLines(NonEmptyContents(messages)), None)]
    /\ started' = started + 1
    /\ UNCHANGED <<now, budget_file, claude_api_key, written, ticks>>

\* python smart_router.py budget
BudgetCommand(p) ==
    /\ rt[p].pc = "idle"
    /\ started < MaxRequests
    /\ rt' = [rt EXCEPT ![p] =
                [Idle EXCEPT !.pc = "done", !.kind = "budget",
                             !.attached = <<get_budget_status(budget_file, now)>>]]
    /\ started' = started + 1
    /\ UNCHANGED <<now, budget_file, claude_api_key, written, ticks>>

\* route_request is about to call call_claude / call_ollama.
AboutToCallClaude(p) == rt[p].pc = "call" /\ rt[p].should_use_claude
AboutToCallOllama(p) ==
    \/ rt[p].pc = "call" /\ ~rt[p].should_use_claude
    \/ rt[p].pc = "fallback"

\* route_request with the result of its first call, made to Claude.
AfterClaude(r, result) ==
    [r EXCEPT !.calls = Append(@, [backend |-> "claude", result |-> result]),
              !.result = <<result>>,
              !.pc = IF FallsBack(r.should_use_claude, result)
                     THEN "fallback" ELSE "attach"]

\* route_request with the result of call_ollama, first call or fallback.
AfterOllama(r, result) ==
    [r EXCEPT !.calls = Append(@, [backend |-> "ollama", result |-> result]),
              !.result = <<result>>,
              !.pc = "attach"]

\* call_claude without a client: fails at once.
ClaudeNotConfigured(p) ==
    /\ AboutToCallClaude(p)
    /\ rt[p].claude_client = NoApiKey
    /\ rt' = [rt EXCEPT ![p] = AfterClaude(@, ClaudeNoKey)]
    /\ UNCHANGED <<now, budget_file, claude_api_key, written, started, ticks>>

\* A call_claude that records a cost before it knows of the failure.
ClaudeFailsAfterRecording(p) ==
    /\ AboutToCallClaude(p)
    /\ rt[p].claude_client # NoApiKey
    /\ budget_file' = UpdatedBudgetData(get_budget_status(budget_file, now),
                                        ClaudeCost(Len(rt[p].prompt), 0))
    /\ written' = written \cup {MonthKey(now)}
    /\ rt' = [rt EXCEPT ![p] = AfterClaude(@, ClaudeFailure)]
    /\ UNCHANGED <<now, claude_api_key, started, ticks>>

\* call_claude: messages.create raises.
ClaudeFails(p) ==
    /\ AboutToCallClaude(p)
    /\ rt[p].claude_client # NoApiKey
    /\ rt' = [rt EXCEPT ![p] = AfterClaude(@, ClaudeFailure)]
    /\ UNCHANGED <<now, budget_file, claude_api_key, written, started, ticks>>

\* call_claude: messages.create answers; the cost is computed and
\* update_budget reads the budget status.
ClaudeResponds(p) ==
    /\ AboutToCallClaude(p)
    /\ rt[p].claude_client # NoApiKey
    /\ \E n \in TextLengths :
          rt' = [rt EXCEPT ![p].pc = "update",
                           ![p].cost = ClaudeCost(Len(rt[p].prompt), n),
                           ![p].budget_status =
                               <<get_budget_status(budget_file, now)>>]
    /\ UNCHANGED <<now, budget_file, claude_api_key, written, started, ticks>>

\* An update_budget that reads the file again at the moment it writes, as
\* one under a lock would.
UpdateBudgetRereading(p) ==
    /\ rt[p].pc = "update"
    /\ budget_file' = UpdatedBudgetData(get_budget_status(budget_file, now),
                                        rt[p].cost)
    /\ written' = written \cup {MonthKey(now)}
    /\ rt' = [rt EXCEPT ![p] = AfterClaude(@, ClaudeSuccess(rt[p].cost))]
    /\ UNCHANGED <<now, claude_api_key, started, ticks>>

\* update_budget writes the file; call_claude returns its success.
UpdateBudget(p) ==
    /\ rt[p].pc = "update"
    /\ budget_file' = UpdatedBudgetData(rt[p].budget_status[1], rt[p].cost)
    /\ written' = written \cup {rt[p].budget_status[1].current_month}
    /\ rt' = [rt EXCEPT ![p] = AfterClaude(@, ClaudeSuccess(rt[p].cost))]
    /\ UNCHANGED <<now, claude_api_key, started, ticks>>

\* call_ollama answers.
OllamaResponds(p) ==
    /\ AboutToCallOllama(p)
    /\ rt' = [rt EXCEPT ![p] = AfterOllama(@, OllamaSuccess)]
    /\ UNCHANGED <<now, budget_file, claude_api_key, written, started, ticks>>

\* call_ollama: the request raises.
OllamaFails(p) ==
    /\ AboutToCallOllama(p)
    /\ rt' = [rt EXCEPT ![p] = AfterOllama(@, OllamaFailure)]
    /\ UNCHANGED <<now, budget_file, claude_api_key, written, started, ticks>>

\* route_request attaches the budget status and the reason and returns; the
\* chat handler answers 200 on success and 500 otherwise.
Attach(p) ==
    /\ rt[p].pc = "attach"
    /\ rt' = [rt EXCEPT ![p].pc = "done",
                        ![p].attached = <<get_budget_status(budget_file, now)>>,
                        ![p].http = IF rt[p].kind # "chat" THEN 0
                                    ELSE IF rt[p].result[1].success THEN 200
                                    ELSE 500]
    /\ UNCHANGED <<now, budget_file, claude_api_key, written, started, ticks>>

\* The command or the HTTP request is over.
Return(p) ==
    /\ rt[p].pc = "done"
    /\ rt' = [rt EXCEPT ![p] = Idle]
    /\ UNCHANGED <<now, budget_file, claude_api_key, written, started, ticks>>

\* The calendar month changes.
Tick ==
    /\ ticks < MaxTicks
    /\ now' = NextMonth(now)
    /\ ticks' = ticks + 1
    /\ UNCHANGED <<budget_file, claude_api_key, rt, written, started>>

\* One step of process p.
Step(p) ==
    \/ PromptCommand(p)
    \/ ChatNoMessages(p)
    \/ ChatCompletion(p)
    \/ BudgetCommand(p)
    \/ ClaudeNotConfigured(p)
    \/ ClaudeFails(p)
    \/ ClaudeResponds(p)
    \/ UpdateBudget(p)
    \/ OllamaResponds(p)
    \/ OllamaFails(p)
    \/ Attach(p)
    \/ Return(p)

\* One request after the other, as the router is written to be used.
Next == Step(1) \/ Tick

Spec == Init /\ [][Next]_vars

\* setup_config(key): the router is built from the configuration as it is,
\* then the key is put into the configuration and saved.
SetupConfig(p) ==
    /\ rt[p].pc = "idle"
    /\ started < MaxRequests
    /\ \E key \in SetupKeys : claude_api_key' = key
    /\ rt' = [rt EXCEPT ![p] = [Idle EXCEPT !.pc = "test ollama", !.kind = "setup",
                                            !.prompt = TestPrompt,
                                            !.claude_client = claude_api_key]]
    /\ started' = started + 1
    /\ UNCHANGED <<now, budget_file, written, ticks>>

\* setup_config's call_ollama answers.
SetupOllamaResponds(p) ==
    /\ rt[p].pc = "test ollama"
    /\ rt' = [rt EXCEPT ![p].pc = "test claude",
                        ![p].calls = Append(@, [backend |-> "ollama",
                                                result |-> OllamaSuccess])]
    /\ UNCHANGED <<now, budget_file, claude_api_key, written, started, ticks>>

\* setup_config's call_ollama fails; the error is printed.
SetupOllamaFails(p) ==
    /\ rt[p].pc = "test ollama"
    /\ rt' = [rt EXCEPT ![p].pc = "test claude",
                        ![p].calls = Append(@, [backend |-> "ollama",
                                                result |-> OllamaFailure])]
    /\ UNCHANGED <<now, budget_file, claude_api_key, written, started, ticks>>

\* setup_config's call_claude on a router built without a client.
SetupClaudeNotConfigured(p) ==
    /\ rt[p].pc = "test claude"
    /\ rt[p].claude_client = NoApiKey
    /\ rt' = [rt EXCEPT ![p].pc = "done",
                        ![p].calls = Append(@, [backend |-> "claude",
                                                result |-> ClaudeNoKey])]
    /\ UNCHANGED <<now, budget_file, claude_api_key, written, started, ticks>>

\* setup_config's call_claude: messages.create raises.
SetupClaudeFails(p) ==
    /\ rt[p].pc = "test claude"
    /\ rt[p].claude_client # NoApiKey
    /\ rt' = [rt EXCEPT ![p].pc = "done",
                        ![p].calls = Append(@, [backend |-> "claude",
                                                result |-> ClaudeFailure])]
    /\ UNCHANGED <<now, budget_file, claude_api_key, written, started, ticks>>

\* setup_config's call_claude: messages.create answers; the cost is computed
\* and update_budget reads the budget status.
SetupClaudeResponds(p) ==
    /\ rt[p].pc = "test claude"
    /\ rt[p].claude_client # NoApiKey
    /\ \E n \in TextLengths :
          rt' = [rt EXCEPT ![p].pc = "test update",
                           ![p].cost = ClaudeCost(Len(rt[p].prompt), n),
                           ![p].budget_status =
                               <<get_budget_status(budget_file, now)>>]
    /\ UNCHANGED <<now, budget_file, claude_api_key, written, started, ticks>>

\* setup_config's call_claude: update_budget writes the file; the test cost
\* is printed.
SetupUpdateBudget(p) ==
    /\ rt[p].pc = "test update"
    /\ budget_file' = UpdatedBudgetData(rt[p].budget_status[1], rt[p].cost)
    /\ written' = written \cup {rt[p].budget_status[1].current_month}
    /\ rt' = [rt EXCEPT ![p].pc = "done",
                        ![p].calls = Append(@, [backend |-> "claude",
                                                result |-> ClaudeSuccess(rt[p].cost)])]
    /\ UNCHANGED <<now, claude_api_key, started, ticks>>

\* One step of process p in  python smart_router.py setup <claude_api_key>.
SetupStep(p) ==
    \/ SetupConfig(p)
    \/ SetupOllamaResponds(p)
    \/ SetupOllamaFails(p)
    \/ SetupClaudeNotConfigured(p)
    \/ SetupClaudeFails(p)
    \/ SetupClaudeResponds(p)
    \/ SetupUpdateBudget(p)

\* Setups and requests of one process, one after the other.
NextSetup == SetupStep(1) \/ Step(1) \/ Tick

SpecSetup == Init /\ [][NextSetup]_vars

\* One step of process p when it runs beside another one.
StepConcurrent(p) ==
    \/ ForcedClaudeCommand(p)
    \/ ClaudeNotConfigured(p)
    \/ ClaudeFails(p)
    \/ ClaudeResponds(p)
    \/ UpdateBudget(p)
    \/ OllamaResponds(p)
    \/ OllamaFails(p)
    \/ Attach(p)
    \/ Return(p)

\* Requests of two processes interleaved: nothing locks the budget file.
NextConcurrent == (\E p \in Procs : StepConcurrent(p)) \/ Tick

SpecConcurrent == Init /\ [][NextConcurrent]_vars

\* ----------------------------------------------------------------- claims
\* Process p has gone through route_request's backend calls (a chat request
\* without messages never enters route_request and has another kind).
Called(p) == rt[p].pc \in {"attach", "done"} /\ rt[p].kind \in {"prompt", "chat"}

\* The first backend call of p failed and asked for a fallback.
FirstCallFailed(p) ==
    /\ ~rt[p].calls[1].result.success
    /\ rt[p].calls[1].result.fallback

\* The other backend.
Alternate(backend) == IF backend = "claude" THEN "ollama" ELSE "claude"

\* C1, as stated: whichever backend was chosen, a first call that fails with
\* fallback = true is followed by exactly one call to the other backend, whose
\* result is the one returned; there is never a third call.
C1_FallbackFromEitherBackend ==
    \A p \in Procs :
        Called(p) =>
            /\ Len(rt[p].calls) <= 2
            /\ FirstCallFailed(p) =>
                  /\ Len(rt[p].calls) = 2
                  /\ rt[p].calls[2].backend = Alternate(rt[p].calls[1].backend)
                  /\ rt[p].result = <<rt[p].calls[2].result>>

\* C1, amended: the first call goes to the chosen backend.  A chosen Claude
\* call that fails with fallback = true is followed by exactly one Ollama call,
\* whose result (success or failure) is returned.  In every other case (a
\* Claude success, or any result of a chosen Ollama, its failure included)
\* the first call is the only one and its result is returned.
C1_FallbackFromClaudeOnly ==
    \A p \in Procs :
        Called(p) =>
            /\ Len(rt[p].calls) \in {1, 2}
            /\ rt[p].calls[1].backend =
                  (IF rt[p].should_use_claude THEN "claude" ELSE "ollama")
            /\ IF rt[p].should_use_claude /\ FirstCallFailed(p)
               THEN /\ Len(rt[p].calls) = 2
                    /\ rt[p].calls[2].backend = "ollama"
                    /\ rt[p].result = <<rt[p].calls[2].result>>
               ELSE /\ Len(rt[p].calls) = 1
                    /\ rt[p].result = <<rt[p].calls[1].result>>

\* C1's case: a failed Claude call was followed by an Ollama call that failed
\* too, and that failure is what route_request returns.
C1_Witness ==
    \E p \in Procs :
        /\ rt[p].pc = "done"
        /\ Len(rt[p].calls) = 2
        /\ rt[p].calls[1] = [backend |-> "claude", result |-> ClaudeFailure]
        /\ rt[p].calls[2] = [backend |-> "ollama", result |-> OllamaFailure]
        /\ rt[p].result = <<OllamaFailure>>

\* What the budget file holds as spent for a month (0 without an entry).
SpentOf(file, month) == IF month \in DOMAIN file THEN file[month].spent ELSE 0

\* ceiling - spent for the current month, from the file as it is.
RemainingNow == monthly_budget - SpentOf(budget_file, MonthKey(now))

\* C2, as stated: whatever requests were routed, the spent value recorded for
\* the current month never exceeds the monthly budget (remaining >= 0).
C2_SpentWithinBudget == RemainingNow >= 0

\* Process p takes the routing decision of a request in this step.
Decides(p) == rt[p].pc = "idle" /\ rt'[p].pc = "call"

\* C3: an unforced decision taken with remaining <= 0 is Ollama, for the
\* reason "budget exhausted"; taken with 0 < remaining < 0.5 it is Ollama, for
\* the reason "budget low"; so Claude is chosen only with remaining >= 0.5,
\* whatever the prompt holds.
C3_BudgetGate ==
    [][\A p \in Procs :
          Decides(p) /\ rt'[p].force_model = None =>
              /\ RemainingNow <= 0 =>
                    /\ ~rt'[p].should_use_claude
                    /\ rt'[p].reason = "Budget erschoepft - Fallback zu Ollama"
              /\ (0 < RemainingNow /\ RemainingNow < LowBudget) =>
                    /\ ~rt'[p].should_use_claude
                    /\ rt'[p].reason = "Budget niedrig - Ollama bevorzugt"
              /\ rt'[p].should_use_claude => RemainingNow >= LowBudget]_vars

\* C3's case: with the budget overdrawn, a prompt that holds an escalation
\* keyword and no Ollama keyword was routed to Ollama.
C3_Witness ==
    \E p \in Procs :
        /\ rt[p].pc = "call"
        /\ rt[p].force_model = None
        /\ RemainingNow <= 0
        /\ AnyKeywordIn(escalation_keywords, Lower(rt[p].prompt))
        /\ ~AnyKeywordIn(ollama_keywords, Lower(rt[p].prompt))
        /\ ~rt[p].should_use_claude
        /\ rt[p].reason = "Budget erschoepft - Fallback zu Ollama"

\* keyword occurs in text, letter case ignored on both sides.
ContainsIgnoringCase(keyword, text) == IsSubstring(Lower(keyword), Lower(text))

\* The prompt holds at least one of the force-local keywords.
HasLocalKeyword(text) ==
    \E n \in 1..Len(ollama_keywords) : ContainsIgnoringCase(ollama_keywords[n], text)

\* The prompt holds at least one of the force-paid keywords.
HasPaidKeyword(text) ==
    \E n \in 1..Len(escalation_keywords) :
        ContainsIgnoringCase(escalation_keywords[n], text)

ForcedReason(force_model) ==
    IF force_model = "claude" THEN "Erzwungen: Claude" ELSE "Erzwungen: Ollama"

\* C5: a request with force_model "ollama" or "claude" is routed to that
\* backend for the reason "forced" without the budget ledger being read for
\* the decision, and the first backend it calls is the forced one, whatever
\* the budget and the prompt are.
C5_ForcedHonoured ==
    \A p \in Procs :
        (rt[p].pc # "idle" /\ rt[p].force_model \in {"ollama", "claude"}) =>
            /\ rt[p].should_use_claude = (rt[p].force_model = "claude")
            /\ rt[p].reason = ForcedReason(rt[p].force_model)
            /\ ~rt[p].consulted
            /\ Len(rt[p].calls) >= 1 => rt[p].calls[1].backend = rt[p].force_model

\* C5's case: with the month's budget overdrawn, a forced Claude request on
\* a prompt holding a force-local keyword called Claude first.
C5_Witness ==
    \E p \in Procs :
        /\ rt[p].pc = "update"
        /\ rt[p].force_model = "claude"
        /\ RemainingNow <= 0
        /\ rt[p].budget_status[1].remaining <= 0
        /\ HasLocalKeyword(rt[p].prompt)

\* Process p's update_budget writes the file in this step.
Writes(p) == rt[p].pc = "update" /\ rt'[p].pc # "update"

\* C6: update_budget(cost) leaves, as the persisted entry of the current
\* month, the spent its get_budget_status reported (which is what the file
\* held, 0 for a month without an entry) plus cost, and the requests it
\* reported plus exactly 1.
C6_RecordAddsCost ==
    [][\A p \in Procs :
          Writes(p) =>
              LET status == rt[p].budget_status[1]
                  month == status.current_month
              IN /\ month \in DOMAIN budget_file'
                 /\ status.spent = SpentOf(budget_file, month)
                 /\ budget_file'[month].spent = status.spent + rt[p].cost
                 /\ budget_file'[month].requests = status.requests + 1
                 /\ month \notin DOMAIN budget_file =>
                       /\ budget_file'[month].spent = rt[p].cost
                       /\ budget_file'[month].requests = 1]_vars

\* C6's case: a paid call was recorded for a month that had no entry, beside
\* the entries of earlier months.
C6_Witness ==
    \E p \in Procs :
        /\ rt[p].pc = "attach"
        /\ rt[p].result = <<ClaudeSuccess(rt[p].cost)>>
        /\ rt[p].cost > 0
        /\ rt[p].budget_status[1].current_month \in DOMAIN budget_file
        /\ budget_file[rt[p].budget_status[1].current_month] =
              [spent |-> rt[p].cost, requests |-> 1]
        /\ Cardinality(DOMAIN budget_file) > 1

\* a comes before b in lexicographic order.
LexLess(a, b) ==
    \/ Len(a) < Len(b) /\ \A i \in 1..Len(a) : a[i] = b[i]
    \/ \E i \in 1..Len(a) :
          /\ i <= Len(b)
          /\ \A j \in 1..(i - 1) : a[j] = b[j]
          /\ a[i] # b[i]
          /\ Ord(a[i]) < Ord(b[i])

\* The (at most) 3 lexicographically greatest of a set of keys.
ThreeGreatest(keys) ==
    {k \in keys : Cardinality({o \in keys : LexLess(k, o)}) < 3}

\* C7: the persisted ledger holds exactly the 3 lexicographically greatest of
\* the month keys written so far (all of them while there are fewer than 3).
C7_KeepsThreeGreatest == DOMAIN budget_file = ThreeGreatest(written)

\* C7's case: a fourth month key was written, across a change of year, and
\* the oldest one is gone.
C7_Witness ==
    /\ Cardinality(written) = 4
    /\ Cardinality(DOMAIN budget_file) = 3
    /\ MonthKey([y |-> 2026, m |-> 1]) \in DOMAIN budget_file
    /\ MonthKey([y |-> 2025, m |-> 10]) \notin DOMAIN budget_file

\* Process p's paid call succeeded and was recorded.
Paid(p) ==
    /\ rt[p].pc \in {"attach", "done"}
    /\ rt[p].result = <<ClaudeSuccess(rt[p].cost)>>

\* C8: when two paid calls that ran side by side have both read the same
\* entry (spent s, requests r) of the same month and both have written, the
\* file holds s plus the cost of one of them only, and r + 1 requests: the
\* other update is lost.
C8_LostUpdate ==
    \A p, q \in Procs :
        (/\ p # q
         /\ Paid(p) /\ Paid(q)
         /\ rt[p].budget_status[1].current_month = rt[q].budget_status[1].current_month
         /\ rt[p].budget_status[1].spent = rt[q].budget_status[1].spent
         /\ rt[p].budget_status[1].requests = rt[q].budget_status[1].requests)
        => LET status == rt[p].budget_status[1]
               month == status.current_month
           IN /\ month \in DOMAIN budget_file
              /\ budget_file[month].spent \in
                    {status.spent + rt[p].cost, status.spent + rt[q].cost}
              /\ budget_file[month].requests = status.requests + 1

\* C8's case: two paid calls of different costs read the same spent; the file
\* holds that spent plus the second writer's cost, not plus both costs.
C8_Witness ==
    \E p, q \in Procs :
        /\ p # q
        /\ Paid(p) /\ Paid(q)
        /\ rt[p].budget_status[1] = rt[q].budget_status[1]
        /\ rt[p].cost # rt[q].cost
        /\ rt[p].cost > 0
        /\ budget_file[rt[q].budget_status[1].current_month] =
              [spent |-> rt[q].budget_status[1].spent + rt[q].cost,
               requests |-> rt[q].budget_status[1].requests + 1]

\* C9: within the requests of one process, a step changes the budget file
\* only when it is the recording of a successful Claude call, and then the
\* month's spent grows by that call's cost (which is not negative) and no other
\* kept entry changes; so no entry's spent ever decreases, and a failed Claude
\* call, an Ollama call and a status read leave the file as it was.
C9_OnlyPaidSuccessSpends ==
    [][/\ budget_file' # budget_file =>
            \E p \in Procs :
                /\ Writes(p)
                /\ rt'[p].result = <<ClaudeSuccess(rt[p].cost)>>
                /\ rt[p].cost >= 0
                /\ LET month == rt[p].budget_status[1].current_month
                   IN /\ SpentOf(budget_file', month) =
                            SpentOf(budget_file, month) + rt[p].cost
                      /\ \A k \in DOMAIN budget_file' \ {month} :
                            k \in DOMAIN budget_file /\ budget_file'[k] = budget_file[k]
       /\ \A k \in DOMAIN budget_file \cap DOMAIN budget_file' :
            budget_file'[k].spent >= budget_file[k].spent
       /\ \A p \in Procs :
            (/\ Len(rt'[p].calls) > Len(rt[p].calls)
             /\ \/ ~rt'[p].result[1].success
                \/ rt'[p].calls[Len(rt'[p].calls)].backend = "ollama")
                => budget_file' = budget_file
       /\ \A p \in Procs :
            rt'[p].attached # rt[p].attached => budget_file' = budget_file]_vars

\* C9's case: a Claude call failed for want of a key, Ollama answered, the
\* status was read (with its zeroed entry for the month), and there still is
\* no budget file entry.
C9_Witness ==
    \E p \in Procs :
        /\ rt[p].pc = "done"
        /\ Len(rt[p].calls) = 2
        /\ rt[p].calls[1] = [backend |-> "claude", result |-> ClaudeNoKey]
        /\ rt[p].calls[2].backend = "ollama"
        /\ Len(rt[p].attached) = 1
        /\ rt[p].attached[1].budget_data[MonthKey(now)] = [spent |-> 0, requests |-> 0]
        /\ DOMAIN budget_file = {}

\* C10, as stated: a request whose prompt is empty (an empty prompt given to
\* route_request, or chat messages without any non-empty content) is refused
\* before any backend is called.
C10_EmptyPromptRejected ==
    \A p \in Procs :
        (rt[p].pc # "idle" /\ rt[p].kind # "budget" /\ Len(rt[p].prompt) = 0)
            => Len(rt[p].calls) = 0

\* C11, as stated: an unforced decision taken with remaining >= 0.5 on a
\* prompt that holds no force-local keyword is Claude for the reason "complex
\* task" if the prompt holds a force-paid keyword in any letter case, else
\* Claude for the reason "long prompt" if it is longer than 1000 characters
\* (1000 is not long), else Ollama for the reason "default".
C11_DecisionTable ==
    [][\A p \in Procs :
          (/\ Decides(p)
           /\ rt'[p].force_model = None
           /\ RemainingNow >= LowBudget
           /\ ~HasLocalKeyword(rt'[p].prompt))
          => IF HasPaidKeyword(rt'[p].prompt)
             THEN /\ rt'[p].should_use_claude
                  /\ rt'[p].reason = "Komplexe Task - Claude erforderlich"
             ELSE IF Len(rt'[p].prompt) > LongPrompt
             THEN /\ rt'[p].should_use_claude
                  /\ rt'[p].reason = "Langer Prompt - Claude fuer bessere Qualitaet"
             ELSE /\ ~rt'[p].should_use_claude
                  /\ rt'[p].reason = "Standard-Task - Ollama Standard"]_vars

\* C12, as stated: when setup is over, the credential it was given is in the
\* saved configuration, the local endpoint was called once, and the paid API
\* was actually called once, with that credential (the paid test did not end
\* as "not configured" without a call, nor run on an earlier credential).
C12_SetupTestsNewCredential ==
    \A p \in Procs :
        (rt[p].kind = "setup" /\ rt[p].pc = "done") =>
            /\ claude_api_key \in SetupKeys
            /\ Len(rt[p].calls) = 2
            /\ rt[p].calls[1].backend = "ollama"
            /\ rt[p].calls[2].backend = "claude"
            /\ rt[p].calls[2].result # ClaudeNoKey
            /\ rt[p].claude_client = claude_api_key

====
